---- MODULE Spec2Model ----
(***************************************************************************)
(* A model of the finite-state-machine engine of src/machine.py: the State *)
(* and Event registries of a Machine, the host object ("model") the        *)
(* Machine is bound to, and the trigger protocol of Event._trigger and     *)
(* Transition.execute, one step per guard check, callback call and state   *)
(* write.                                                                  *)
(***************************************************************************)
EXTENDS Naturals, Sequences, FiniteSets, TLC

(* ------------------------------ bounds -------------------------------- *)

\* The number of add_transition calls explored.
MaxTransitions == 2

\* How many times the callbacks of one invocation call a trigger themselves.
MaxReentries == 1

(* ------------------------------ inputs -------------------------------- *)

\* State names handed to the constructor, add_state and add_transition.
StateNames == {"A", "B"}

\* Trigger names handed to add_transition.
Triggers == {"go", "alt"}

\* The conditions argument of add_transition: none, or two named guards.
CondLists == {<<>>, <<"g", "h">>}

\* The on_enter / on_exit argument of a state descriptor.
CallbackLists == {<<>>, <<"p", "q">>}

\* What a user-supplied guard may do when called: return a value or raise.
GuardOutcomes == {"True", "False", "raise"}

\* What a user-supplied enter/exit callback may do when called.
CallbackOutcomes == {"ok", "raise"}

\* The values a caller may give the target keyword of Transition.execute.
Targets == {"True", "False"}

\* The threads that call into the engine; Callers are the ones that do when
\* the host is single-threaded.
Threads == {"main", "other"}
Callers == {"main"}

\* The keywords a trigger is called with, each absent (<<>>) or given (<<v>>):
\* target is a parameter of Transition.execute, trigger_name is a parameter of
\* Machine._get_trigger, b is a parameter of the example's exit callback.
NoKwargs == [target |-> <<>>, b |-> <<>>, trigger_name |-> <<>>]

\* A call with no argument.
DefaultCall == [args |-> <<>>, kwargs |-> NoKwargs]

\* The value of an attribute that has not been set.
NoState == ""

(* ------------------------------ state ---------------------------------- *)

VARIABLES
    states,     \* Machine.states: the State registry, in insertion order
    events,     \* Machine.events: the Event registry, in insertion order
    initial,    \* Machine._initial; NoState before construction
    model,      \* the host object: its state slot and the attributes bound onto it
    calls,      \* per thread, the stack of trigger invocations in progress
    log,        \* the guards, callbacks and state writes of the invocation under way
    ret,        \* per thread, the outcome of its last finished invocation
    query,      \* the last get_triggers call and what it returned
    locked      \* whether the callers hold one lock per model around an invocation

vars == <<states, events, initial, model, calls, log, ret, query, locked>>

(* --------------------------- the host object --------------------------- *)

\* The bound methods the host class defines by the on_enter_/on_exit_ convention.
ModelMethods == {"on_exit_A", "on_enter_B", "on_exit_asleep"}

\* hasattr(model, name) and inspect.ismethod(getattr(model, name))
IsBoundMethod(name) == name \in ModelMethods

\* A host whose is_exhausted may return anything.
PredicateFree(name) == GuardOutcomes

\* What a guard of the host may return: TestObject.is_exhausted returns False,
\* any other guard is free.
Predicate(name) == IF name = "is_exhausted" THEN {"False"} ELSE GuardOutcomes

\* The defaults of TestObject.on_exit_asleep(self, a=100, b=200).
DefaultA == 100
DefaultB == 200

\* Python binds the arguments passed to on_exit_asleep: at most two
\* positionals, no keyword but b, and b not given twice.
Binds(passed) ==
    /\ Len(passed.args) <= 2
    /\ passed.kwargs.target = <<>> /\ passed.kwargs.trigger_name = <<>>
    /\ Len(passed.args) = 2 => passed.kwargs.b = <<>>

ArgA(passed) == IF Len(passed.args) >= 1 THEN passed.args[1] ELSE DefaultA

ArgB(passed) ==
    IF Len(passed.args) >= 2 THEN passed.args[2]
    ELSE IF passed.kwargs.b # <<>> THEN passed.kwargs.b[1]
    ELSE DefaultB

\* What a callback of the host may do with the arguments it is passed:
\* on_exit_asleep returns when they bind and raises TypeError when they do
\* not; any other callback is free.
Behaviours(name, passed) ==
    IF name = "on_exit_asleep"
    THEN IF Binds(passed) THEN {"ok"} ELSE {"raise"}
    ELSE CallbackOutcomes

\* Machine.trigger_callback: the model after func(*args, **kwargs); of the
\* callbacks explored, on_exit_asleep stores a + b on the model.
trigger_callback(m, func, passed, outcome) ==
    IF func = "on_exit_asleep" /\ outcome = "ok"
    THEN [m EXCEPT !.internal_state = <<ArgA(passed) + ArgB(passed)>>]
    ELSE m

(* ------------------------------ State ---------------------------------- *)

\* State.__init__; the callback arguments explored are lists, which listify
\* returns as they are.
State(name, on_enter, on_exit) ==
    [name |-> name, on_enter |-> on_enter, on_exit |-> on_exit]

\* State.add_callback
add_callback(st, trigger, func) ==
    IF trigger = "on_enter"
    THEN [st EXCEPT !.on_enter = Append(@, func)]
    ELSE [st EXCEPT !.on_exit = Append(@, func)]

\* The state descriptors explored: a bare name, or a name with both callback lists.
Descriptors ==
    {State(n, cb, cb) : n \in StateNames, cb \in CallbackLists}

(* --------------------------- the registries ---------------------------- *)

\* name in self.states
Registered(reg, name) == \E i \in 1..Len(reg) : reg[i].name = name

IndexOf(reg, name) == CHOOSE i \in 1..Len(reg) : reg[i].name = name

\* self.states[name]
StateOf(reg, name) == reg[IndexOf(reg, name)]

\* Machine.get_state: the State, or the ValueError of an unregistered name
get_state(reg, name) ==
    IF ~Registered(reg, name)
    THEN [found |-> FALSE, state |-> State(name, <<>>, <<>>)]
    ELSE [found |-> TRUE, state |-> StateOf(reg, name)]

\* A Machine.set_state that writes the name without looking it up.
set_stateUnchecked(m, reg, name) == [ok |-> TRUE, model |-> [m EXCEPT !.state = name]]

\* A Machine.set_state that looks the name up and does not write it.
set_stateNoWrite(m, reg, name) == [ok |-> get_state(reg, name).found, model |-> m]

\* Machine.set_state for a name: the model after the write, or the ValueError
\* of get_state, which leaves the model as it was
set_state(m, reg, name) ==
    LET st == get_state(reg, name)
    IN  IF st.found
        THEN [ok |-> TRUE, model |-> [m EXCEPT !.state = st.state.name]]
        ELSE [ok |-> FALSE, model |-> m]

\* self.states[state.name] = state (an OrderedDict keeps the position of a key)
PutState(reg, st) ==
    IF Registered(reg, st.name)
    THEN [reg EXCEPT ![IndexOf(reg, st.name)] = st]
    ELSE Append(reg, st)

\* Machine._add_model_to_state: the callbacks the convention adds to the State
AddModelToState(st) ==
    LET enter_callback == "on_enter_" \o st.name
        exit_callback == "on_exit_" \o st.name
        s1 == IF IsBoundMethod(enter_callback)
              THEN add_callback(st, "on_enter", enter_callback) ELSE st
    IN  IF IsBoundMethod(exit_callback)
        THEN add_callback(s1, "on_exit", exit_callback) ELSE s1

\* Machine.add_state, on the registry
add_state(reg, desc) ==
    PutState(reg, AddModelToState(State(desc.name, desc.on_enter, desc.on_exit)))

\* for state in states: self.add_state(state)
RECURSIVE AddStates(_, _)
AddStates(reg, list) ==
    IF list = <<>> THEN reg
    ELSE AddStates(add_state(reg, Head(list)), Tail(list))

\* for _, state in self.states.items(): self._add_model_to_state(state)
BindAll(reg) == [i \in 1..Len(reg) |-> AddModelToState(reg[i])]

\* Machine.__init__, on the registry
InitStates(list, init) ==
    LET r1 == AddStates(<<>>, list)
        r2 == IF Registered(r1, init) THEN r1 ELSE add_state(r1, State(init, <<>>, <<>>))
    IN  BindAll(r2)

\* The attributes Machine._add_model_to_state sets on the model.
StateAttrs(reg) == {"is_" \o reg[i].name : i \in 1..Len(reg)}

(* ------------------------------ Event ---------------------------------- *)

\* Transition.__init__
Transition(source, dest, conditions) ==
    [source |-> source, dest |-> dest, conditions |-> conditions]

\* Event.__init__: transitions is an empty defaultdict(list)
Event(name) == [name |-> name, transitions |-> <<>>]

HasEvent(evs, trigger) == \E i \in 1..Len(evs) : evs[i].name = trigger

EventOf(evs, trigger) == evs[CHOOSE i \in 1..Len(evs) : evs[i].name = trigger]

\* source in ev.transitions
HasSource(ev, source) ==
    \E i \in 1..Len(ev.transitions) : ev.transitions[i].source = source

\* An Event._trigger that reads the first list of the Event whatever the
\* model's state is.
CandidatesFirst(ev, source) == ev.transitions[1].list

\* ev.transitions[source]
Candidates(ev, source) ==
    ev.transitions[CHOOSE i \in 1..Len(ev.transitions) :
                       ev.transitions[i].source = source].list

\* An Event.add_transition that puts the new Transition first in the list.
EventAddTransitionFirst(ev, t) ==
    IF HasSource(ev, t.source)
    THEN [ev EXCEPT !.transitions =
            [i \in 1..Len(@) |->
                IF @[i].source = t.source
                THEN [@[i] EXCEPT !.list = <<t>> \o @] ELSE @[i]]]
    ELSE [ev EXCEPT !.transitions = Append(@, [source |-> t.source, list |-> <<t>>])]

\* Event.add_transition: self.transitions[transition.source].append(transition)
EventAddTransition(ev, t) ==
    IF HasSource(ev, t.source)
    THEN [ev EXCEPT !.transitions =
            [i \in 1..Len(@) |->
                IF @[i].source = t.source
                THEN [@[i] EXCEPT !.list = Append(@, t)] ELSE @[i]]]
    ELSE [ev EXCEPT !.transitions = Append(@, [source |-> t.source, list |-> <<t>>])]

\* Machine.add_transition, on the registry
add_transition(evs, trigger, source, dest, conditions) ==
    LET e1 == IF HasEvent(evs, trigger) THEN evs ELSE Append(evs, Event(trigger))
        t == Transition(source, dest, conditions)
    IN  [i \in 1..Len(e1) |->
            IF e1[i].name = trigger THEN EventAddTransition(e1[i], t) ELSE e1[i]]

RECURSIVE SumLen(_)
SumLen(s) == IF s = <<>> THEN 0 ELSE Len(Head(s).list) + SumLen(Tail(s))

RECURSIVE CountTransitions(_)
CountTransitions(evs) ==
    IF evs = <<>> THEN 0
    ELSE SumLen(Head(evs).transitions) + CountTransitions(Tail(evs))

(* ------------------------- trigger invocations ------------------------- *)

\* The signature of Transition.execute (line 119) binds the keyword target,
\* True when the caller gave none.
TargetOf(kwargs) == IF kwargs.target = <<>> THEN "True" ELSE kwargs.target[1]

\* A Transition.execute that passes no positional argument on.
PassedNoArgs(call) ==
    [args |-> <<>>, kwargs |-> [call.kwargs EXCEPT !.target = <<>>]]

\* What lines 133 and 135 pass to State.exit and State.enter, and these to
\* every callback: *args and the keywords left in **kwargs.
Passed(call) ==
    [args |-> call.args, kwargs |-> [call.kwargs EXCEPT !.target = <<>>]]

\* One activation of Event._trigger: the trigger, the target keyword, the name
\* of the State looked up on entry (line 178), and the position in the
\* candidate loop (ci), the guard loop (gi) and the callback loops (ki); via
\* tells which entry point of the model made the call.
Frame(trigger, call, src, via) ==
    [trigger |-> trigger, call |-> call, target |-> TargetOf(call.kwargs), src |-> src,
     via |-> via, pc |-> "guard", ci |-> 1, gi |-> 1, ki |-> 1]

Idle(th) == calls[th] = <<>>

Top(th) == calls[th][Len(calls[th])]

\* self.transitions[state.name] of the Event of a trigger
CandidatesOf(trigger, source) == Candidates(EventOf(events, trigger), source)

\* The Transition the frame is executing.
Current(f) == CandidatesOf(f.trigger, f.src)[f.ci]

\* What is recorded of a guard check, a callback call or a state write: which
\* thread and candidate it belongs to, what it did, and the model's state when
\* it began.
\* A callback's entry also holds the arguments it was called with, and every
\* entry the depth of the invocation and the source of its Transition.
LogEntry(th, kind, name, f, val) ==
    [th |-> th, kind |-> kind, name |-> name, cand |-> f.ci,
     val |-> val, state |-> model.state,
     passed |-> IF kind \in {"exit", "enter"} THEN Passed(f.call) ELSE DefaultCall,
     depth |-> Len(calls[th]), source |-> Current(f).source]

Outcome(f, value) ==
    [trigger |-> f.trigger, call |-> f.call, target |-> f.target,
     src |-> f.src, via |-> f.via, value |-> value]

NoOutcome ==
    [trigger |-> "", call |-> DefaultCall, target |-> "", src |-> NoState,
     via |-> "", value |-> "none"]

\* No get_triggers call was the last operation.
NoQuery == [asked |-> FALSE, names |-> {}, result |-> <<>>]

\* The value Event._trigger returns when its loop ends with no candidate
\* taken: the function falls off its end (line 186 is its only return).
Rejected == "None"

\* The exceptions that leave Event._trigger.
Faults == {"ValueError", "MachineError", "CallbackFault"}

\* An Event._trigger that reads self.transitions[state.name] without the test
\* of line 179: the defaultdict yields an empty list and the loop does nothing.
EntryNoTest(trigger, name) ==
    IF ~get_state(states, name).found THEN "ValueError"
    ELSE IF ~HasSource(EventOf(events, trigger), name) THEN "None"
    ELSE "loop"

\* An Event._trigger that tests the trigger's sources before it looks the
\* model's state up.
EntrySourceFirst(trigger, name) ==
    IF ~HasSource(EventOf(events, trigger), name) THEN "MachineError"
    ELSE IF ~get_state(states, name).found THEN "ValueError"
    ELSE "loop"

\* Lines 178-181 of Event._trigger: the lookup of the model's state and the
\* test that the trigger has candidates from it.
Entry(trigger, name) ==
    IF ~get_state(states, name).found THEN "ValueError"
    ELSE IF ~HasSource(EventOf(events, trigger), name) THEN "MachineError"
    ELSE "loop"

\* An Event._trigger whose return from a nested invocation also ends the
\* invocation that the calling callback belongs to.
FinishOuterToo(th, f, value) ==
    /\ calls' = [calls EXCEPT ![th] = <<>>]
    /\ ret' = [ret EXCEPT ![th] = Outcome(calls[th][1], value)]

\* The invocation ends: by a return or by an exception leaving Event._trigger.
\* When it was made by a callback of another invocation, a return gives the
\* control back to that callback, which returns in its turn, and an exception
\* leaves the callback and the invocations around it.
Finish(th, f, value) ==
    IF Len(calls[th]) = 1
    THEN /\ calls' = [calls EXCEPT ![th] = <<>>]
         /\ ret' = [ret EXCEPT ![th] = Outcome(f, value)]
    ELSE IF value \in Faults
    THEN /\ calls' = [calls EXCEPT ![th] = <<>>]
         /\ ret' = [ret EXCEPT ![th] = Outcome(calls[th][1], value)]
    ELSE /\ calls' = [calls EXCEPT ![th] = SubSeq(@, 1, Len(@) - 1)]
         /\ UNCHANGED ret

\* The invocation goes on from frame f.
Continue(th, f) ==
    /\ calls' = [calls EXCEPT ![th] = [@ EXCEPT ![Len(@)] = f]]
    /\ UNCHANGED ret

\* A Transition.execute that writes the state without calling State.exit.
AfterGuardsNoExit(f) == [f EXCEPT !.pc = "set"]

\* A Transition.execute that looks the destination up before State.exit, and
\* goes to the write, which raises, when it is not registered.
AfterGuardsCheckDest(f) ==
    IF ~get_state(states, Current(f).dest).found
          \/ get_state(states, Current(f).source).state.on_exit = <<>>
    THEN [f EXCEPT !.pc = "set"]
    ELSE [f EXCEPT !.pc = "exit", !.ki = 1]

\* Transition.execute after its guard loop: line 133, State.exit of the
\* source, whose loop is skipped when the State has no exit callback.
AfterGuards(f) ==
    IF get_state(states, Current(f).source).state.on_exit = <<>>
    THEN [f EXCEPT !.pc = "set"]
    ELSE [f EXCEPT !.pc = "exit", !.ki = 1]

\* The start of Transition.execute for candidate f.ci (line 128).
execute(f) ==
    IF Current(f).conditions = <<>>
    THEN AfterGuards(f)
    ELSE [f EXCEPT !.pc = "guard", !.gi = 1]

\* An Event._trigger whose loop does not return at the first taken candidate.
TakenNoReturn(th, f) ==
    IF f.ci < Len(CandidatesOf(f.trigger, f.src))
    THEN Continue(th, execute([f EXCEPT !.ci = @ + 1]))
    ELSE Finish(th, f, "True")

\* Transition.execute returns True (line 136) and Event._trigger returns True
\* at once (lines 185-186).
Taken(th, f) == Finish(th, f, "True")

\* A Condition.check that passes whatever the predicate returns.
checkAlways(value, target) == TRUE

\* Condition.check: predicate() == target
check(value, target) == value = target

(* ------------------------------ actions -------------------------------- *)

\* The host object before a Machine is bound to it, and no call made.
Fresh ==
    /\ states = <<>>
    /\ events = <<>>
    /\ initial = NoState
    /\ model = [state |-> NoState, attrs |-> {}, internal_state |-> <<>>]
    /\ calls = [th \in Threads |-> <<>>]
    /\ log = <<>>
    /\ ret = [th \in Threads |-> NoOutcome]
    /\ query = NoQuery

Init == Fresh /\ locked = TRUE

Constructed == initial # NoState

Quiet == \A th \in Threads : Idle(th)

\* Machine(states, initial, model)
Construct(list, init) ==
    /\ ~Constructed
    /\ LET reg == InitStates(list, init)
           bound == [model EXCEPT !.attrs = @ \cup {"trigger"} \cup StateAttrs(reg)]
       IN  /\ set_state(bound, reg, init).ok
           /\ states' = reg
           /\ model' = set_state(bound, reg, init).model
    /\ events' = <<>>
    /\ initial' = init
    /\ UNCHANGED <<calls, log, ret, query, locked>>

\* Machine.add_state(state, on_enter, on_exit) after construction, for a name
\* that is not registered yet
AddState(desc) ==
    /\ Constructed /\ Quiet
    /\ ~Registered(states, desc.name)
    /\ states' = add_state(states, desc)
    /\ model' = [model EXCEPT !.attrs = @ \cup {"is_" \o desc.name}]
    /\ log' = <<>>
    /\ ret' = [th \in Threads |-> NoOutcome]
    /\ query' = NoQuery
    /\ UNCHANGED <<events, initial, calls, locked>>

\* Machine.add_transition(trigger, source, dest, conditions)
AddTransition(trigger, source, dest, conditions) ==
    /\ Constructed /\ Quiet
    /\ CountTransitions(events) < MaxTransitions
    /\ events' = add_transition(events, trigger, source, dest, conditions)
    /\ model' = [model EXCEPT !.attrs = @ \cup {trigger}]
    /\ log' = <<>>
    /\ ret' = [th \in Threads |-> NoOutcome]
    /\ query' = NoQuery
    /\ UNCHANGED <<states, initial, calls, locked>>

\* An Event._trigger that indexes self.transitions with the state's name
\* before it tests it: the defaultdict makes an empty list for a missing name.
TriggerInserting(th, trigger, call, via) ==
    /\ Constructed /\ Idle(th) /\ (locked => Quiet)
    /\ trigger \in model.attrs /\ HasEvent(events, trigger)
    /\ log' = SelectSeq(log, LAMBDA x : x.th # th)
    /\ query' = NoQuery
    /\ LET f == Frame(trigger, call, model.state, via)
           e == Entry(trigger, model.state)
       IN  /\ IF e = "loop"
              THEN /\ calls' = [calls EXCEPT ![th] = Append(@, execute(f))]
                   /\ ret' = [ret EXCEPT ![th] = NoOutcome]
              ELSE /\ ret' = [ret EXCEPT ![th] = Outcome(f, e)]
                   /\ UNCHANGED calls
           /\ events' =
                IF e = "MachineError"
                THEN [i \in 1..Len(events) |->
                        IF events[i].name = trigger
                        THEN [events[i] EXCEPT !.transitions =
                                Append(@, [source |-> model.state, list |-> <<>>])]
                        ELSE events[i]]
                ELSE events
    /\ UNCHANGED <<states, initial, model, locked>>

\* Event.trigger(model, *args, **kwargs), and Event._trigger up to its loop.
\* A thread starts it when it is in no invocation, and, where the callers hold
\* a lock around an invocation, when no thread is in one.
Trigger(th, trigger, call, via) ==
    /\ Constructed /\ Idle(th) /\ (locked => Quiet)
    /\ trigger \in model.attrs /\ HasEvent(events, trigger)
    /\ log' = SelectSeq(log, LAMBDA x : x.th # th)
    /\ query' = NoQuery
    /\ LET f == Frame(trigger, call, model.state, via)
           e == Entry(trigger, model.state)
       IN  IF e = "loop"
           THEN /\ calls' = [calls EXCEPT ![th] = Append(@, execute(f))]
                /\ ret' = [ret EXCEPT ![th] = NoOutcome]
           ELSE /\ ret' = [ret EXCEPT ![th] = Outcome(f, e)]
                /\ UNCHANGED calls
    /\ UNCHANGED <<states, events, initial, model, locked>>

\* model.<trigger>(*args, **kwargs): the partial of Event.trigger that
\* Machine._add_trigger_to_model sets on the model
Invoke(th, trigger, call) == Trigger(th, trigger, call, "direct")

\* Machine._get_trigger(model, trigger_name, *args, **kwargs), reached through
\* the partial bound to model.trigger: a keyword trigger_name collides with
\* the parameter (TypeError); otherwise getattr finds the attribute, which is
\* called with *args and **kwargs, or AttributeError is raised.
get_trigger(m, trigger_name, call) ==
    IF call.kwargs.trigger_name # <<>>
    THEN [found |-> FALSE, fault |-> "TypeError", func |-> trigger_name, call |-> call]
    ELSE IF trigger_name \notin m.attrs
    THEN [found |-> FALSE, fault |-> "AttributeError", func |-> trigger_name, call |-> call]
    ELSE [found |-> TRUE, fault |-> "", func |-> trigger_name, call |-> call]

\* model.trigger(trigger_name, *args, **kwargs)
Generic(th, trigger_name, call) ==
    /\ Constructed /\ Idle(th) /\ (locked => Quiet)
    /\ "trigger" \in model.attrs
    /\ LET d == get_trigger(model, trigger_name, call)
       IN  IF d.found
           THEN Trigger(th, d.func, d.call, "generic")
           ELSE /\ ret' = [ret EXCEPT ![th] =
                            Outcome(Frame(trigger_name, call, model.state, "generic"), d.fault)]
                /\ log' = SelectSeq(log, LAMBDA x : x.th # th)
                /\ query' = NoQuery
                /\ UNCHANGED <<states, events, initial, model, calls, locked>>

\* One pass of the guard loop of Transition.execute (lines 128-131); a failed
\* guard makes execute return False, and Event._trigger's loop (lines 184-186)
\* goes to the next candidate or ends.
Guard(th, value) ==
    /\ ~Idle(th) /\ Top(th).pc = "guard"
    /\ LET f == Top(th)
           c == Current(f).conditions
       IN  /\ value \in Predicate(c[f.gi])
           /\ log' = Append(log, LogEntry(th, "guard", c[f.gi], f, value))
           /\ IF value = "raise"
              THEN Finish(th, f, "CallbackFault")
              ELSE IF check(value, f.target)
              THEN IF f.gi < Len(c)
                   THEN Continue(th, [f EXCEPT !.gi = @ + 1])
                   ELSE Continue(th, AfterGuards(f))
              ELSE IF f.ci < Len(CandidatesOf(f.trigger, f.src))
                   THEN Continue(th, execute([f EXCEPT !.ci = @ + 1]))
                   ELSE Finish(th, f, Rejected)
    /\ UNCHANGED <<states, events, initial, model, query, locked>>

\* A State.exit that suppresses the exception of a callback and goes on.
ExitCallbackSuppress(th, outcome) ==
    /\ ~Idle(th) /\ Top(th).pc = "exit"
    /\ LET f == Top(th)
           cbs == get_state(states, Current(f).source).state.on_exit
       IN  /\ outcome \in Behaviours(cbs[f.ki], Passed(f.call))
           /\ model' = trigger_callback(model, cbs[f.ki], Passed(f.call), outcome)
           /\ log' = Append(log, LogEntry(th, "exit", cbs[f.ki], f, outcome))
           /\ IF f.ki < Len(cbs)
              THEN Continue(th, [f EXCEPT !.ki = @ + 1])
              ELSE Continue(th, [f EXCEPT !.pc = "set"])
    /\ UNCHANGED <<states, events, initial, query, locked>>

\* One pass of the loop of State.exit (lines 56-57)
ExitCallback(th, outcome) ==
    /\ ~Idle(th) /\ Top(th).pc = "exit"
    /\ LET f == Top(th)
           cbs == get_state(states, Current(f).source).state.on_exit
       IN  /\ outcome \in Behaviours(cbs[f.ki], Passed(f.call))
           /\ model' = trigger_callback(model, cbs[f.ki], Passed(f.call), outcome)
           /\ log' = Append(log, LogEntry(th, "exit", cbs[f.ki], f, outcome))
           /\ IF outcome = "raise"
              THEN Finish(th, f, "CallbackFault")
              ELSE IF f.ki < Len(cbs)
              THEN Continue(th, [f EXCEPT !.ki = @ + 1])
              ELSE Continue(th, [f EXCEPT !.pc = "set"])
    /\ UNCHANGED <<states, events, initial, query, locked>>

\* Lines 134-135 of Transition.execute: set_state(self.dest), then the lookup
\* of the destination State and the entry of its enter loop; line 136 when the
\* State has no enter callback.
SetState(th) ==
    /\ ~Idle(th) /\ Top(th).pc = "set"
    /\ LET f == Top(th)
           dest == Current(f).dest
           w == set_state(model, states, dest)
           st == get_state(states, dest)
       IN  /\ model' = w.model
           /\ log' = Append(log, LogEntry(th, "set", dest, f, IF w.ok THEN "ok" ELSE "raise"))
           /\ IF ~w.ok \/ ~st.found
              THEN Finish(th, f, "ValueError")
              ELSE IF st.state.on_enter = <<>>
              THEN Taken(th, f)
              ELSE Continue(th, [f EXCEPT !.pc = "enter", !.ki = 1])
    /\ UNCHANGED <<states, events, initial, query, locked>>

\* A Transition.execute that restores the source state when an enter callback
\* raises.
EnterCallbackRollback(th, outcome) ==
    /\ ~Idle(th) /\ Top(th).pc = "enter"
    /\ LET f == Top(th)
           cbs == get_state(states, Current(f).dest).state.on_enter
       IN  /\ outcome \in Behaviours(cbs[f.ki], Passed(f.call))
           /\ log' = Append(log, LogEntry(th, "enter", cbs[f.ki], f, outcome))
           /\ IF outcome = "raise"
              THEN Finish(th, f, "CallbackFault") /\ model' = [model EXCEPT !.state = f.src]
              ELSE /\ model' = trigger_callback(model, cbs[f.ki], Passed(f.call), outcome)
                   /\ IF f.ki < Len(cbs)
                      THEN Continue(th, [f EXCEPT !.ki = @ + 1])
                      ELSE Taken(th, f)
    /\ UNCHANGED <<states, events, initial, query, locked>>

\* One pass of the loop of State.enter (lines 49-50); line 136 after the last
EnterCallback(th, outcome) ==
    /\ ~Idle(th) /\ Top(th).pc = "enter"
    /\ LET f == Top(th)
           cbs == get_state(states, Current(f).dest).state.on_enter
       IN  /\ outcome \in Behaviours(cbs[f.ki], Passed(f.call))
           /\ model' = trigger_callback(model, cbs[f.ki], Passed(f.call), outcome)
           /\ log' = Append(log, LogEntry(th, "enter", cbs[f.ki], f, outcome))
           /\ IF outcome = "raise"
              THEN Finish(th, f, "CallbackFault")
              ELSE IF f.ki < Len(cbs)
              THEN Continue(th, [f EXCEPT !.ki = @ + 1])
              ELSE Taken(th, f)
    /\ UNCHANGED <<states, events, initial, query, locked>>

\* The trigger invocations made by the callbacks of thread th's invocation.
Reentries(th) == SelectSeq(log, LAMBDA e : e.th = th /\ e.val = "call")

\* A pass of the loop of State.exit whose callback, a method of the model,
\* calls model.<trigger>() itself: trigger_callback (line 344) calls it, and
\* Event.trigger runs again inside it, reading the state the model has then.
\* When that invocation returns, the callback returns and the loop of the
\* outer State.exit goes on; an exception passes through the callback.
Reenter(th, trigger) ==
    /\ ~Idle(th) /\ Top(th).pc = "exit"
    /\ Len(Reentries(th)) < MaxReentries
    /\ trigger \in model.attrs /\ HasEvent(events, trigger)
    /\ LET f == Top(th)
           cbs == get_state(states, Current(f).source).state.on_exit
           after == IF f.ki < Len(cbs)
                    THEN [f EXCEPT !.ki = @ + 1]
                    ELSE [f EXCEPT !.pc = "set"]
           n == Frame(trigger, DefaultCall, model.state, "callback")
           e == Entry(trigger, model.state)
       IN  /\ log' = Append(log, LogEntry(th, "exit", cbs[f.ki], f, "call"))
           /\ IF e = "loop"
              THEN /\ calls' = [calls EXCEPT ![th] =
                                  Append([@ EXCEPT ![Len(@)] = after], execute(n))]
                   /\ UNCHANGED ret
              ELSE /\ calls' = [calls EXCEPT ![th] = <<>>]
                   /\ ret' = [ret EXCEPT ![th] = Outcome(calls[th][1], e)]
    /\ UNCHANGED <<states, events, initial, model, query, locked>>

\* model.state = name, written by the host's own code and not by the engine
ExternalWrite(name) ==
    /\ Constructed /\ Quiet
    /\ model' = [model EXCEPT !.state = name]
    /\ log' = <<>>
    /\ ret' = [th \in Threads |-> NoOutcome]
    /\ query' = NoQuery
    /\ UNCHANGED <<states, events, initial, calls, locked>>

\* A Machine.get_triggers that asks for every given name (all, not any).
get_triggersAll(evs, names) ==
    LET hit == SelectSeq(evs, LAMBDA ev : \A s \in names : HasSource(ev, s))
    IN  [i \in 1..Len(hit) |-> hit[i].name]

\* Machine.get_triggers: the triggers, in the order of the Event registry,
\* whose Event has an entry for any of the given names
get_triggers(evs, names) ==
    LET hit == SelectSeq(evs, LAMBDA ev : \E s \in names : HasSource(ev, s))
    IN  [i \in 1..Len(hit) |-> hit[i].name]

\* machine.get_triggers(names)
GetTriggers(names) ==
    /\ Constructed /\ Quiet
    /\ query' = [asked |-> TRUE, names |-> names, result |-> get_triggers(events, names)]
    /\ log' = <<>>
    /\ ret' = [th \in Threads |-> NoOutcome]
    /\ UNCHANGED <<states, events, initial, model, calls, locked>>

\* The constructor's states argument: no state, one, or one of each name.
StateLists ==
    {<<>>} \cup {<<d>> : d \in Descriptors}
           \cup {<<d, e>> : d \in {x \in Descriptors : x.name = "A"},
                            e \in {x \in Descriptors : x.name = "B"}}

\* The get_triggers arguments explored: the state names in any number.
QueryInputs == SUBSET StateNames

\* The engine used by one thread, with triggers called with no argument.
Next ==
    \/ \E list \in StateLists, init \in StateNames : Construct(list, init)
    \/ \E desc \in Descriptors : AddState(desc)
    \/ \E t \in Triggers, s \in StateNames, d \in StateNames, c \in CondLists :
          AddTransition(t, s, d, c)
    \/ \E th \in Callers, t \in Triggers : Invoke(th, t, DefaultCall)
    \/ \E th \in Callers, v \in GuardOutcomes : Guard(th, v)
    \/ \E th \in Callers, o \in CallbackOutcomes : ExitCallback(th, o)
    \/ \E th \in Callers : SetState(th)
    \/ \E th \in Callers, o \in CallbackOutcomes : EnterCallback(th, o)

Spec == Init /\ [][Next]_vars

\* The engine and its query; transitions have no guard.
NextQuery ==
    \/ \E list \in StateLists, init \in StateNames : Construct(list, init)
    \/ \E desc \in Descriptors : AddState(desc)
    \/ \E t \in Triggers, s \in StateNames, d \in StateNames :
          AddTransition(t, s, d, <<>>)
    \/ \E names \in QueryInputs : GetTriggers(names)
    \/ \E th \in Callers, t \in Triggers : Invoke(th, t, DefaultCall)
    \/ \E th \in Callers, o \in CallbackOutcomes : ExitCallback(th, o)
    \/ \E th \in Callers : SetState(th)
    \/ \E th \in Callers, o \in CallbackOutcomes : EnterCallback(th, o)

SpecQuery == Init /\ [][NextQuery]_vars

(* --------------------------- the example machine ------------------------ *)

\* TestObject.states
ExampleStates == <<"asleep", "hanging", "hungry", "sweaty", "saving the world">>

\* The add_transition calls of TestObject.__init__, in their order.
ExampleTransitions ==
    << [trigger |-> "wake_up", source |-> "asleep", dest |-> "hanging", conditions |-> <<>>],
       [trigger |-> "work_out", source |-> "hanging", dest |-> "hungry", conditions |-> <<>>],
       [trigger |-> "work_out", source |-> "asleep", dest |-> "hungry", conditions |-> <<>>],
       [trigger |-> "hiit", source |-> "hanging", dest |-> "sweaty", conditions |-> <<>>],
       [trigger |-> "eat", source |-> "hungry", dest |-> "hanging", conditions |-> <<>>],
       [trigger |-> "clean_up", source |-> "sweaty", dest |-> "asleep",
        conditions |-> <<"is_exhausted">>],
       [trigger |-> "clean_up", source |-> "sweaty", dest |-> "hanging", conditions |-> <<>>] >>

ExampleTriggers == {ExampleTransitions[i].trigger : i \in 1..Len(ExampleTransitions)}

\* The add_transition calls of a list, one after the other
RECURSIVE AddTransitions(_, _)
AddTransitions(evs, list) ==
    IF list = <<>> THEN evs
    ELSE AddTransitions(
            add_transition(evs, Head(list).trigger, Head(list).source,
                           Head(list).dest, Head(list).conditions),
            Tail(list))

\* The registry Machine(model=self, states=TestObject.states, initial='asleep')
\* builds.
ExampleRegistry ==
    InitStates([i \in 1..Len(ExampleStates) |-> State(ExampleStates[i], <<>>, <<>>)],
               "asleep")

\* The machine and the host after TestObject.__init__.
Example ==
    /\ states = ExampleRegistry
    /\ events = AddTransitions(<<>>, ExampleTransitions)
    /\ initial = "asleep"
    /\ model = set_state([state |-> NoState,
                          attrs |-> {"trigger"} \cup StateAttrs(ExampleRegistry)
                                               \cup ExampleTriggers,
                          internal_state |-> <<>>],
                         ExampleRegistry, "asleep").model
    /\ calls = [th \in Threads |-> <<>>]
    /\ log = <<>>
    /\ ret = [th \in Threads |-> NoOutcome]
    /\ query = NoQuery

InitExample == Example /\ locked = TRUE

\* The arguments triggers are called with: those of the example's test, and
\* keywords named as parameters of the engine.
ExampleArgs == {<<>>, <<200, 300>>}

ExampleKwargs ==
    [target : {<<>>, <<"False">>},
     b : {<<>>},
     trigger_name : {<<>>, <<"eat">>}]

ExampleCalls == [args : ExampleArgs, kwargs : ExampleKwargs]

\* The names given to the generic entry point: the triggers and a name that
\* is no attribute of the model.
TriggerNames == ExampleTriggers \cup {"fly"}

\* The example machine, its triggers called with arguments through either
\* entry point of the model. No State of the example has an enter callback.
NextExample ==
    \/ \E th \in Callers, t \in ExampleTriggers, c \in ExampleCalls : Invoke(th, t, c)
    \/ \E th \in Callers, t \in TriggerNames, c \in ExampleCalls : Generic(th, t, c)
    \/ \E th \in Callers, v \in GuardOutcomes : Guard(th, v)
    \/ \E th \in Callers, o \in CallbackOutcomes : ExitCallback(th, o)
    \/ \E th \in Callers : SetState(th)

SpecExample == InitExample /\ [][NextExample]_vars

\* The host is the example's, or one that builds its machine call by call.
InitArgs == (Example \/ Fresh) /\ locked = TRUE

\* The calls explored for such a host: with or without positional arguments,
\* and with no keyword, with target, or with b.
ArgKwargs ==
    {NoKwargs, [NoKwargs EXCEPT !.b = <<300>>]}
        \cup {[NoKwargs EXCEPT !.target = <<v>>] : v \in Targets}

ArgCalls == [args : ExampleArgs, kwargs : ArgKwargs]

\* The engine with triggers called with arguments; transitions declared call
\* by call have one trigger and no guard.
NextArgs ==
    \/ \E list \in StateLists, init \in StateNames : Construct(list, init)
    \/ \E desc \in Descriptors : AddState(desc)
    \/ \E s \in StateNames, d \in StateNames : AddTransition("go", s, d, <<>>)
    \/ \E th \in Callers, t \in ExampleTriggers \cup {"go"}, c \in ArgCalls :
          Invoke(th, t, c)
    \/ \E th \in Callers, v \in GuardOutcomes : Guard(th, v)
    \/ \E th \in Callers, o \in CallbackOutcomes : ExitCallback(th, o)
    \/ \E th \in Callers : SetState(th)
    \/ \E th \in Callers, o \in CallbackOutcomes : EnterCallback(th, o)

SpecArgs == InitArgs /\ [][NextArgs]_vars

\* The names the host's own code may write into model.state.
WrittenNames == StateNames \cup {"X"}

\* The engine under a host that also writes model.state itself: the example
\* machine, or a machine declared call by call with one trigger.
NextExternal ==
    \/ \E list \in StateLists, init \in StateNames : Construct(list, init)
    \/ \E desc \in Descriptors : AddState(desc)
    \/ \E s \in StateNames, d \in StateNames, c \in CondLists :
          AddTransition("go", s, d, c)
    \/ \E name \in WrittenNames : ExternalWrite(name)
    \/ \E th \in Callers, t \in ExampleTriggers \cup {"go"} : Invoke(th, t, DefaultCall)
    \/ \E th \in Callers, v \in GuardOutcomes : Guard(th, v)
    \/ \E th \in Callers, o \in CallbackOutcomes : ExitCallback(th, o)
    \/ \E th \in Callers : SetState(th)
    \/ \E th \in Callers, o \in CallbackOutcomes : EnterCallback(th, o)

SpecExternal == InitArgs /\ [][NextExternal]_vars

\* A machine for two threads: from A, go leads to B and alt back to A (go has
\* a second candidate to A); from B, alt leads to A. The model defines
\* on_exit_A and on_enter_B.
RaceTransitions ==
    << [trigger |-> "go", source |-> "A", dest |-> "B", conditions |-> <<>>],
       [trigger |-> "go", source |-> "A", dest |-> "A", conditions |-> <<>>],
       [trigger |-> "alt", source |-> "A", dest |-> "A", conditions |-> <<>>],
       [trigger |-> "alt", source |-> "B", dest |-> "A", conditions |-> <<>>] >>

RaceRegistry == InitStates(<<State("A", <<>>, <<>>), State("B", <<>>, <<>>)>>, "A")

\* That machine after its construction and its add_transition calls; the
\* callers either hold one lock per model around every invocation, or none.
InitRace ==
    /\ states = RaceRegistry
    /\ events = AddTransitions(<<>>, RaceTransitions)
    /\ initial = "A"
    /\ model = set_state([state |-> NoState,
                          attrs |-> {"trigger"} \cup StateAttrs(RaceRegistry) \cup Triggers,
                          internal_state |-> <<>>],
                         RaceRegistry, "A").model
    /\ calls = [th \in Threads |-> <<>>]
    /\ log = <<>>
    /\ ret = [th \in Threads |-> NoOutcome]
    /\ query = NoQuery
    /\ locked \in BOOLEAN

\* The engine called by two threads.
NextRace ==
    \/ \E th \in Threads, t \in Triggers : Invoke(th, t, DefaultCall)
    \/ \E th \in Threads, o \in CallbackOutcomes : ExitCallback(th, o)
    \/ \E th \in Threads : SetState(th)
    \/ \E th \in Threads, o \in CallbackOutcomes : EnterCallback(th, o)

SpecRace == InitRace /\ [][NextRace]_vars

\* The machine of the two threads, with callbacks given to A at construction:
\* A has an enter callback and, before on_exit_A, an exit callback.
ReentrantRegistry ==
    InitStates(<<State("A", <<"q">>, <<"p">>), State("B", <<>>, <<>>)>>, "A")

InitReentrant ==
    /\ states = ReentrantRegistry
    /\ events = AddTransitions(<<>>, RaceTransitions)
    /\ initial = "A"
    /\ model = set_state([state |-> NoState,
                          attrs |-> {"trigger"} \cup StateAttrs(ReentrantRegistry)
                                       \cup Triggers,
                          internal_state |-> <<>>],
                         ReentrantRegistry, "A").model
    /\ calls = [th \in Threads |-> <<>>]
    /\ log = <<>>
    /\ ret = [th \in Threads |-> NoOutcome]
    /\ query = NoQuery
    /\ locked = TRUE

\* The engine called by one thread, whose exit callbacks may call a trigger.
NextReentrant ==
    \/ \E th \in Callers, t \in Triggers : Invoke(th, t, DefaultCall)
    \/ \E th \in Callers, t \in Triggers : Reenter(th, t)
    \/ \E th \in Callers, o \in CallbackOutcomes : ExitCallback(th, o)
    \/ \E th \in Callers : SetState(th)
    \/ \E th \in Callers, o \in CallbackOutcomes : EnterCallback(th, o)

SpecReentrant == InitReentrant /\ [][NextReentrant]_vars

(* ------------------- reading the record of an invocation ---------------- *)

\* The thread has finished an invocation and nothing was redefined since.
Done(th) == Idle(th) /\ ret[th].value # "none"

\* The thread is in an invocation, or has finished one.
Active(th) == ~Idle(th) \/ Done(th)

\* The trigger and the source state of the thread's current or last invocation.
InvTrigger(th) == IF Idle(th) THEN ret[th].trigger ELSE calls[th][1].trigger
InvSrc(th) == IF Idle(th) THEN ret[th].src ELSE calls[th][1].src
InvTarget(th) == IF Idle(th) THEN ret[th].target ELSE calls[th][1].target

\* The arguments that invocation was called with.
InvCall(th) == IF Idle(th) THEN ret[th].call ELSE calls[th][1].call

\* The exit and enter callbacks that invocation has called.
Callbacks(th) == SelectSeq(log, LAMBDA e : e.th = th /\ e.kind \in {"exit", "enter"})

\* The candidates of that invocation, in the order Event._trigger reads them.
InvCandidates(th) ==
    IF HasEvent(events, InvTrigger(th))
       /\ HasSource(EventOf(events, InvTrigger(th)), InvSrc(th))
    THEN CandidatesOf(InvTrigger(th), InvSrc(th))
    ELSE <<>>

LogOf(th) == SelectSeq(log, LAMBDA e : e.th = th)
OfKind(th, kind) == SelectSeq(log, LAMBDA e : e.th = th /\ e.kind = kind)
Effects(th) == SelectSeq(log, LAMBDA e : e.th = th /\ e.kind # "guard")
GuardsOf(th, k) == SelectSeq(log, LAMBDA e : e.th = th /\ e.kind = "guard" /\ e.cand = k)

Names(s) == [i \in 1..Len(s) |-> s[i].name]
IsPrefix(p, s) == Len(p) <= Len(s) /\ p = SubSeq(s, 1, Len(p))
AllOk(s) == \A i \in 1..Len(s) : s[i].val = "ok"

\* The callback lists of a registered State, as the registry holds them.
OnExit(name) == get_state(states, name).state.on_exit
OnEnter(name) == get_state(states, name).state.on_enter

\* The candidate, and the destination, that an invocation's callbacks and
\* state write belong to.
Committed(th) == Effects(th)[1].cand
DestOf(th) == InvCandidates(th)[Committed(th)].dest

\* Candidate k's guards were evaluated and one of them returned the wrong value.
RejectedByGuards(th, k) ==
    LET g == GuardsOf(th, k)
    IN  g # <<>> /\ g[Len(g)].val \notin {InvTarget(th), "raise"}

(* ------------------------------ claims --------------------------------- *)

\* C1: in an invocation that accepts a Transition, the exit callbacks of the
\* source run first, in declaration order and with the model still in the
\* source state; then the state is written once; then the enter callbacks of
\* the destination run, in declaration order and with the model already in the
\* destination state. An invocation that returns true has run all of them.
C1_ExitSetEnterOrder ==
    \A th \in Threads :
        (Active(th) /\ Effects(th) # <<>>) =>
            LET fx == Effects(th)
                ex == OfKind(th, "exit")
                st == OfKind(th, "set")
                en == OfKind(th, "enter")
                src == InvSrc(th)
                dest == DestOf(th)
            IN  /\ Len(st) <= 1
                /\ \A i \in 1..Len(fx) :
                     /\ fx[i].cand = Committed(th)
                     /\ fx[i].kind = IF i <= Len(ex) THEN "exit"
                                     ELSE IF i <= Len(ex) + Len(st) THEN "set"
                                     ELSE "enter"
                /\ IsPrefix(Names(ex), OnExit(src))
                /\ \A i \in 1..Len(ex) : ex[i].state = src
                /\ st # <<>> =>
                     /\ Names(ex) = OnExit(src) /\ AllOk(ex)
                     /\ st[1].name = dest /\ st[1].state = src
                /\ en # <<>> => AllOk(st)
                /\ IsPrefix(Names(en), OnEnter(dest))
                /\ \A i \in 1..Len(en) : en[i].state = dest
                /\ (Done(th) /\ ret[th].value = "True") =>
                     /\ Len(st) = 1 /\ AllOk(st)
                     /\ Names(en) = OnEnter(dest) /\ AllOk(en)
                     /\ model.state = dest

C1_Witness ==
    \E th \in Threads :
        /\ Done(th) /\ ret[th].value = "True"
        /\ Len(OfKind(th, "exit")) >= 3
        /\ Len(OfKind(th, "enter")) >= 3
        /\ InvSrc(th) # model.state

\* The candidates registered for a trigger from a source; none when the
\* trigger or the source has no entry.
Declared(evs, trigger, source) ==
    IF HasEvent(evs, trigger) /\ HasSource(EventOf(evs, trigger), source)
    THEN Candidates(EventOf(evs, trigger), source)
    ELSE <<>>

\* Every guard check, callback and state write so far belongs to a candidate
\* no later than the one under way; each earlier candidate was rejected by one
\* of its guards; the candidate whose callbacks run passed every guard it has,
\* and nothing of a later candidate was evaluated or run.
FirstPassingCandidate(th) ==
    LET l == LogOf(th)
        cs == InvCandidates(th)
    IN  /\ \A i \in 1..Len(l) :
             /\ l[i].cand \in 1..Len(cs)
             /\ \A j \in 1..i : l[j].cand <= l[i].cand
             /\ \A k \in 1..(l[i].cand - 1) : RejectedByGuards(th, k)
        /\ Effects(th) # <<>> =>
             LET c == Committed(th)
                 g == GuardsOf(th, c)
             IN  /\ Names(g) = cs[c].conditions
                 /\ \A i \in 1..Len(g) : g[i].val = InvTarget(th)
                 /\ \A i \in 1..Len(l) : l[i].cand <= c
        /\ (Done(th) /\ ret[th].value = "True") => Effects(th) # <<>>

\* C2: the candidates of a trigger from one source are kept in the order
\* add_transition declared them (a declaration only appends to the list); an
\* invocation evaluates them in that order, commits the first whose guards
\* all pass, and evaluates no guard and runs no callback of a later one.
C2_FirstCandidateWins ==
    /\ [](\A th \in Threads : Active(th) => FirstPassingCandidate(th))
    /\ [][\A t \in Triggers, s \in StateNames :
             /\ IsPrefix(Declared(events, t, s), Declared(events', t, s))
             /\ Len(Declared(events', t, s)) <= Len(Declared(events, t, s)) + 1]_vars

\* The first of two candidates is committed although the second, which has no
\* guard, would pass as well.
C2_Witness ==
    \E th \in Threads :
        /\ Done(th) /\ ret[th].value = "True"
        /\ Committed(th) = 1
        /\ Len(InvCandidates(th)) = 2
        /\ InvCandidates(th)[1].conditions # <<>>
        /\ InvCandidates(th)[2].conditions = <<>>
        /\ InvCandidates(th)[2].dest # InvCandidates(th)[1].dest

\* Every candidate of the invocation was rejected by one of its guards.
AllRejected(th) ==
    /\ InvCandidates(th) # <<>>
    /\ \A k \in 1..Len(InvCandidates(th)) : RejectedByGuards(th, k)

\* C3: the guards of a candidate are evaluated in declaration order and the
\* evaluation stops at the first one that fails; an invocation in which every
\* candidate is rejected by a guard raises no fault, leaves the model's state
\* as it was, and runs no exit callback, no enter callback and no state write.
C3_GuardRejectionNoEffect ==
    \A th \in Threads :
        Active(th) =>
            /\ \A k \in 1..Len(InvCandidates(th)) :
                 LET g == GuardsOf(th, k)
                 IN  /\ IsPrefix(Names(g), InvCandidates(th)[k].conditions)
                     /\ \A i \in 1..(Len(g) - 1) : g[i].val = InvTarget(th)
            /\ (Done(th) /\ AllRejected(th)) =>
                 /\ ret[th].value \notin Faults
                 /\ ret[th].value = Rejected
                 /\ model.state = InvSrc(th)
                 /\ Effects(th) = <<>>

\* Two candidates are rejected, one of them at its second guard.
C3_Witness ==
    \E th \in Threads :
        /\ Done(th) /\ AllRejected(th)
        /\ Len(InvCandidates(th)) = 2
        /\ Len(GuardsOf(th, 1)) = 2
        /\ Len(GuardsOf(th, 2)) = 1

\* C4: a trigger invocation returns the boolean true, returns the boolean
\* false, or propagates a fault; an invocation whose candidates are all
\* rejected by their guards returns false.
C4_BooleanOrFault ==
    \A th \in Threads :
        Done(th) =>
            /\ ret[th].value \in {"True", "False"} \cup Faults
            /\ AllRejected(th) => ret[th].value = "False"

\* C5: a declared trigger invoked in a registered state from which it has no
\* Transition raises MachineError, with the model's state unchanged and no
\* guard, callback or state write run; and MachineError is raised in no other
\* case, so it is never the outcome of a guard rejection.
C5_TriggerFault ==
    \A th \in Threads :
        Done(th) =>
            /\ (Registered(states, InvSrc(th)) /\ InvCandidates(th) = <<>>) =>
                 /\ ret[th].value = "MachineError"
                 /\ model.state = InvSrc(th)
                 /\ LogOf(th) = <<>>
            /\ ret[th].value = "MachineError" =>
                 /\ InvCandidates(th) = <<>>
                 /\ ~AllRejected(th)

\* The trigger is declared from the other state only.
C5_Witness ==
    \E th \in Threads :
        /\ Done(th) /\ ret[th].value = "MachineError"
        /\ InvTrigger(th) \in model.attrs
        /\ \E s \in StateNames : s # InvSrc(th) /\ Declared(events, InvTrigger(th), s) # <<>>

\* C6: the step that constructs the Machine leaves the model's state equal to
\* the declared initial state, which is registered, and fires no enter and no
\* exit callback, whatever the list of states and the initial name are.
C6_SilentInitialState ==
    [][(~Constructed /\ Constructed') =>
          /\ model'.state = initial'
          /\ Registered(states', initial')
          /\ log' = <<>>
          /\ \A th \in Threads : calls'[th] = <<>>]_vars

\* The Machine has just been built with an initial state for which the model
\* defines on_enter_<state>, and the convention callback is registered.
C6_Witness ==
    /\ Constructed /\ events = <<>> /\ log = <<>>
    /\ \A th \in Threads : ret[th] = NoOutcome
    /\ initial = "B" /\ model.state = "B"
    /\ IsBoundMethod("on_enter_B")
    /\ "on_enter_B" \in {OnEnter("B")[i] : i \in 1..Len(OnEnter("B"))}

\* C7: once the Machine is constructed, the model's state is the name of a
\* registered State at every step, also when a committed Transition names an
\* unregistered destination: that invocation faults and writes nothing.
C7_StateRegistered ==
    /\ Constructed => Registered(states, model.state)
    /\ \A th \in Threads :
         \A i \in 1..Len(OfKind(th, "set")) :
            LET e == OfKind(th, "set")[i]
            IN  ~Registered(states, e.name) =>
                  /\ e.val = "raise"
                  /\ Done(th) /\ ret[th].value = "ValueError"
                  /\ model.state = e.state

\* A Transition to an unregistered destination passed its guards and faulted.
C7_Witness ==
    \E th \in Threads :
        /\ Done(th) /\ ret[th].value = "ValueError"
        /\ OfKind(th, "set") # <<>>
        /\ ~Registered(states, OfKind(th, "set")[1].name)
        /\ model.state = InvSrc(th)

\* How many times a name occurs in a list.
Count(seq, x) == Cardinality({i \in 1..Len(seq) : seq[i] = x})

\* C8: a bound model method on_enter_<state> or on_exit_<state> is in the
\* callback list of its State exactly once, so a committed transition that
\* leaves (enters) the state calls it exactly once.
C8_ConventionBoundOnce ==
    /\ \A i \in 1..Len(states) :
         LET n == states[i].name
         IN  /\ Count(states[i].on_enter, "on_enter_" \o n)
                  = IF IsBoundMethod("on_enter_" \o n) THEN 1 ELSE 0
             /\ Count(states[i].on_exit, "on_exit_" \o n)
                  = IF IsBoundMethod("on_exit_" \o n) THEN 1 ELSE 0
    /\ \A th \in Threads :
         (Done(th) /\ ret[th].value = "True") =>
            /\ Count(Names(OfKind(th, "exit")), "on_exit_" \o InvSrc(th))
                 = IF IsBoundMethod("on_exit_" \o InvSrc(th)) THEN 1 ELSE 0
            /\ Count(Names(OfKind(th, "enter")), "on_enter_" \o model.state)
                 = IF IsBoundMethod("on_enter_" \o model.state) THEN 1 ELSE 0

\* C9: when an exit callback raises, it is the last thing the invocation does:
\* the fault reaches the caller, the later exit callbacks, the state write and
\* the enter callbacks do not run, no later candidate is tried, and the model
\* is still in the source state.
C9_ExitFault ==
    \A th \in Threads :
        \A i \in 1..Len(LogOf(th)) :
            LET e == LogOf(th)[i]
            IN  (e.kind = "exit" /\ e.val = "raise") =>
                  /\ i = Len(LogOf(th))
                  /\ Done(th) /\ ret[th].value = "CallbackFault"
                  /\ model.state = InvSrc(th)
                  /\ OfKind(th, "set") = <<>> /\ OfKind(th, "enter") = <<>>
                  /\ IsPrefix(Names(OfKind(th, "exit")), OnExit(InvSrc(th)))

\* The second exit callback raised; more exit callbacks and a later candidate
\* were left.
C9_Witness ==
    \E th \in Threads :
        /\ Done(th) /\ ret[th].value = "CallbackFault"
        /\ Len(OfKind(th, "exit")) = 2
        /\ OfKind(th, "exit")[2].val = "raise"
        /\ Len(OnExit(InvSrc(th))) > 2
        /\ Len(InvCandidates(th)) > Committed(th)
        /\ DestOf(th) # InvSrc(th)

\* C10: when an enter callback raises, it is the last thing the invocation
\* does: the fault reaches the caller, the later enter callbacks do not run,
\* every exit callback of the source has completed, and the model is in the
\* destination state.
C10_EnterFault ==
    \A th \in Threads :
        \A i \in 1..Len(LogOf(th)) :
            LET e == LogOf(th)[i]
            IN  (e.kind = "enter" /\ e.val = "raise") =>
                  /\ i = Len(LogOf(th))
                  /\ Done(th) /\ ret[th].value = "CallbackFault"
                  /\ model.state = DestOf(th)
                  /\ Names(OfKind(th, "exit")) = OnExit(InvSrc(th))
                  /\ AllOk(OfKind(th, "exit"))
                  /\ IsPrefix(Names(OfKind(th, "enter")), OnEnter(DestOf(th)))

\* The second enter callback raised after the exit callbacks of another state;
\* more enter callbacks were left.
C10_Witness ==
    \E th \in Threads :
        /\ Done(th) /\ ret[th].value = "CallbackFault"
        /\ Len(OfKind(th, "enter")) = 2
        /\ OfKind(th, "enter")[2].val = "raise"
        /\ Len(OnEnter(DestOf(th))) > 2
        /\ OfKind(th, "exit") # <<>>
        /\ DestOf(th) # InvSrc(th)
        /\ model.state # InvSrc(th)

\* C11: when the model's state is a name that is not registered, as after a
\* write by the host's own code, a trigger invocation raises ValueError (not
\* MachineError) before any guard is evaluated and any callback is run, and
\* leaves the model's state as it found it; no invocation gets into its
\* candidate loop from such a state.
C11_CorruptStateFault ==
    \A th \in Threads :
        /\ ~Idle(th) => Registered(states, InvSrc(th))
        /\ (Done(th) /\ ~Registered(states, InvSrc(th))) =>
              /\ ret[th].value = "ValueError"
              /\ ret[th].value # "MachineError"
              /\ LogOf(th) = <<>>
              /\ model.state = InvSrc(th)

\* The state was written to a name that no State and no Transition has, and
\* the trigger, which has guarded candidates elsewhere, was invoked.
C11_Witness ==
    \E th \in Threads :
        /\ Done(th) /\ ret[th].value = "ValueError"
        /\ model.state = "X" /\ InvSrc(th) = "X"
        /\ \E s \in StateNames :
              /\ Registered(states, s)
              /\ Declared(events, InvTrigger(th), s) # <<>>
              /\ Declared(events, InvTrigger(th), s)[1].conditions # <<>>

C13_OnlyMatchingSource ==
    /\ \A i \in 1..Len(events) :
         \A j \in 1..Len(events[i].transitions) :
            \A k \in 1..Len(events[i].transitions[j].list) :
               events[i].transitions[j].list[k].source = events[i].transitions[j].source
    /\ \A th \in Threads :
         Active(th) =>
            /\ \A i \in 1..Len(LogOf(th)) : LogOf(th)[i].source = InvSrc(th)
            /\ \A k \in 1..Len(InvCandidates(th)) : InvCandidates(th)[k].source = InvSrc(th)
            /\ (Done(th) /\ InvTrigger(th) = "work_out"
                    /\ InvSrc(th) \in {"asleep", "hanging"}) =>
                  /\ ret[th].value = "True"
                  /\ model.state = "hungry"
                  /\ OfKind(th, "set") # <<>>
                  /\ OfKind(th, "set")[1].source = InvSrc(th)

\* work_out was taken from asleep, the source it was declared from second.
C13_Witness ==
    \E th \in Threads :
        /\ Done(th) /\ ret[th].value = "True"
        /\ InvTrigger(th) = "work_out" /\ InvSrc(th) = "asleep"
        /\ model.state = "hungry"
        /\ EventOf(events, "work_out").transitions[1].source = "hanging"
        /\ Len(EventOf(events, "work_out").transitions) = 2

TriggersFrom(evs, names) ==
    {evs[i].name : i \in {k \in 1..Len(evs) :
        \E j \in 1..Len(evs[k].transitions) :
            /\ evs[k].transitions[j].source \in names
            /\ evs[k].transitions[j].list # <<>>}}

\* C15: get_triggers returns the triggers that have a Transition registered
\* from at least one of the given names, each once and no other, whatever the
\* state of the model is; and the call changes neither the model's state nor
\* a registry.
C15_GetTriggers ==
    /\ [](query.asked =>
            /\ {query.result[i] : i \in 1..Len(query.result)}
                  = TriggersFrom(events, query.names)
            /\ \A i, j \in 1..Len(query.result) :
                  i # j => query.result[i] # query.result[j])
    /\ [][query'.asked => UNCHANGED <<states, events, initial, model, calls>>]_vars

\* Both triggers are declared; the query for a state the model is not in
\* returned the one declared from it.
C15_Witness ==
    /\ query.asked /\ query.names = {"B"} /\ model.state = "A"
    /\ Len(events) = 2
    /\ query.result = <<events[2].name>>

\* C16 as stated: for every declared trigger t and every argument list, a call
\* of the generic entry point model.trigger(t, args) is, step for step, the
\* call model.t(args): the same fault or the same entry into the candidate
\* loop with the same arguments, hence the same guards, callbacks, state write
\* and return value.
C16_GenericSameAsDirect ==
    [][\A th \in Callers, t \in ExampleTriggers, c \in ExampleCalls :
          Generic(th, t, c) => Trigger(th, t, c, "generic")]_vars

\* Some invocation wrote the state, or ran an exit callback, for a Transition
\* from a state the model was not in at that moment.
StaleEffect ==
    \E i \in 1..Len(log) :
        /\ log[i].kind \in {"exit", "set"}
        /\ log[i].state # log[i].source

\* C17: when the callers hold one lock per model around every invocation, at
\* most one invocation is in progress, and every exit callback and every state
\* write of an invocation happens with the model in the state the invocation
\* read and its Transition leaves: no Transition is committed from a state the
\* model has left. (Without the lock that state is reachable: C17_Witness.)
C17_SerializedByLock ==
    locked =>
        /\ \A t1, t2 \in Threads : (~Idle(t1) /\ ~Idle(t2)) => t1 = t2
        /\ ~StaleEffect
        /\ \A th \in Threads :
              \A i \in 1..Len(LogOf(th)) :
                 LogOf(th)[i].kind \in {"exit", "set"} => LogOf(th)[i].state = InvSrc(th)

\* Without a lock: both threads read A, both ran every exit callback of A
\* with the model in A, both wrote the state, the second write onto the
\* destination of the first, and the model is where the last writer put it.
C17_Witness ==
    /\ ~locked
    /\ \A th \in Threads :
          /\ Done(th) /\ ret[th].value = "True" /\ InvSrc(th) = "A"
          /\ Names(OfKind(th, "exit")) = OnExit("A") /\ OnExit("A") # <<>>
          /\ \A i \in 1..Len(OfKind(th, "exit")) : OfKind(th, "exit")[i].state = "A"
          /\ Len(OfKind(th, "set")) = 1
    /\ OfKind("main", "set")[1].name # OfKind("other", "set")[1].name
    /\ StaleEffect
    /\ LET writes == SelectSeq(log, LAMBDA e : e.kind = "set")
       IN  model.state = writes[Len(writes)].name

\* C18: a Transition to an unregistered destination is in the registry like
\* any other. When it is the first candidate whose guards pass, the invocation
\* runs every exit callback of the source, then raises ValueError at the state
\* write, as the last thing it does: the model is still in the source state,
\* no enter callback has run and no later candidate was tried. If an exit
\* callback raised, that fault is the outcome and the write is not reached.
C18_UnregisteredDest ==
    \A th \in Threads :
        /\ \A i \in 1..Len(LogOf(th)) :
              LET e == LogOf(th)[i]
              IN  (e.kind = "set" /\ ~Registered(states, e.name)) =>
                    /\ e.val = "raise"
                    /\ i = Len(LogOf(th))
                    /\ Done(th) /\ ret[th].value = "ValueError"
                    /\ e.state = InvSrc(th) /\ model.state = InvSrc(th)
                    /\ Names(OfKind(th, "exit")) = OnExit(InvSrc(th))
                    /\ AllOk(OfKind(th, "exit"))
                    /\ OfKind(th, "enter") = <<>>
                    /\ FirstPassingCandidate(th)
        /\ (Done(th) /\ Effects(th) # <<>> /\ ~Registered(states, DestOf(th))) =>
              /\ model.state = InvSrc(th)
              /\ \/ ret[th].value = "ValueError" /\ OfKind(th, "set") # <<>>
                 \/ /\ ret[th].value = "CallbackFault"
                    /\ OfKind(th, "set") = <<>>
                    /\ LogOf(th)[Len(LogOf(th))].val = "raise"

\* The first candidate, guarded, goes to a name that is not registered; its
\* guards passed, the exit callbacks of the source ran, the write raised, and
\* the second candidate was not tried.
C18_Witness ==
    \E th \in Threads :
        /\ Done(th) /\ ret[th].value = "ValueError"
        /\ Len(OfKind(th, "set")) = 1
        /\ Len(OfKind(th, "exit")) >= 3
        /\ Len(InvCandidates(th)) = 2 /\ Committed(th) = 1
        /\ ~Registered(states, InvCandidates(th)[1].dest)
        /\ Len(GuardsOf(th, 1)) = 2
        /\ model.state = InvSrc(th)

\* The positions in the log of thread th's entries of a kind made by its
\* outer invocation (depth 1) or by the invocations its callbacks made.
Outer(th, kind) == {i \in 1..Len(log) : log[i].th = th /\ log[i].kind = kind
                                          /\ log[i].depth = 1}
Nested(th, kind) == {i \in 1..Len(log) : log[i].th = th /\ log[i].kind = kind
                                           /\ log[i].depth > 1}

\* C19: when an exit callback of the source State invoked a trigger itself and
\* that nested invocation committed a Transition, and the outer invocation has
\* returned true, the outer Transition was completed after it: the outer
\* invocation wrote its destination after every nested write, the model is in
\* the outer destination, and the enter callbacks of the outer destination all
\* ran, after every enter callback of the nested Transition.
C19_OuterCompletesAfterNested ==
    \A th \in Callers :
        (/\ Done(th) /\ ret[th].value = "True"
         /\ \E i \in Nested(th, "set") : log[i].val = "ok")
        => /\ \E i \in Outer(th, "set") :
                 /\ log[i].val = "ok"
                 /\ model.state = log[i].name
                 /\ \A j \in Nested(th, "set") : j < i
                 /\ Cardinality(Outer(th, "enter")) = Len(OnEnter(log[i].name))
                 /\ \A k \in Outer(th, "enter") :
                        /\ log[k].val = "ok"
                        /\ k > i
                        /\ log[k].name = OnEnter(log[i].name)[k - i]
           /\ \A k \in Outer(th, "enter"), j \in Nested(th, "enter") : j < k

\* An exit callback of A invoked a trigger that took the model to a state X
\* and ran X's enter callbacks; the outer invocation returned true with the
\* model in its own destination, which is not X, and ran its enter callbacks.
C19_Witness ==
    \E th \in Callers :
        /\ Done(th) /\ ret[th].value = "True"
        /\ \E i \in Nested(th, "set") :
              /\ log[i].val = "ok"
              /\ log[i].name # model.state
        /\ Nested(th, "enter") # {}
        /\ Outer(th, "enter") # {}
        /\ \E i \in Outer(th, "set") : log[i].name = model.state

\* C20: a step of a trigger invocation and a get_triggers call leave the State
\* registry and the Event registry as they are, and no Event ever has an empty
\* list for a source. A trigger that raised MachineError from a state would
\* raise it again from that state, and the test that raises it changes its
\* result for a trigger and a state only in a step that is no invocation and
\* appends one Transition from that state to the trigger's Event.
C20_RegistriesUnchanged ==
    /\ [](/\ \A i \in 1..Len(events) :
              \A j \in 1..Len(events[i].transitions) :
                 events[i].transitions[j].list # <<>>
          /\ \A th \in Threads :
                (Done(th) /\ ret[th].value = "MachineError") =>
                   Entry(InvTrigger(th), InvSrc(th)) = "MachineError")
    /\ [][/\ ((\E th \in Threads :
                  \/ calls'[th] # calls[th]
                  \/ ret'[th].value # "none" /\ ret'[th] # ret[th])
              \/ query'.asked)
                => UNCHANGED <<states, events>>
          /\ \A t \in Triggers, s \in StateNames :
                (/\ HasEvent(events, t)
                 /\ Declared(events, t, s) = <<>>
                 /\ Declared(events', t, s) # <<>>) =>
                    /\ Len(Declared(events', t, s)) = 1
                    /\ Declared(events', t, s)[1].source = s
                    /\ CountTransitions(events') = CountTransitions(events) + 1
                    /\ calls' = calls /\ Quiet]_vars

\* Both triggers are declared, one of them not from the state the model is
\* in: its invocation raised MachineError, and would again.
C20_Witness ==
    \E th \in Threads :
        /\ Done(th) /\ ret[th].value = "MachineError"
        /\ Len(events) = 2
        /\ model.state = InvSrc(th)
        /\ Entry(InvTrigger(th), model.state) = "MachineError"
        /\ \E t \in Triggers : Declared(events, t, model.state) # <<>>

====
